---- MODULE Spec2Model ----
(***************************************************************************)
(* Model of src/http_server.py: the FastAPI service that wraps the         *)
(* TradingAgentsGraph engine.  Text (symbols, dates) is a sequence of      *)
(* one-character strings so that str.upper, str.split and int() are        *)
(* computed, not assumed.  Every endpoint is an `async def` without any    *)
(* await, served by one uvicorn event loop (http_server.py:238-246), so a  *)
(* handler runs to completion before another starts: one action models one *)
(* whole handler, and concurrency is the set of accepted requests that are *)
(* still waiting for the loop.                                             *)
(***************************************************************************)
EXTENDS Integers, Sequences, FiniteSets, TLC

\* ------------------------------------------------------------------------
\* Bounds of the model
\* ------------------------------------------------------------------------
MaxInflight == 2
MaxCtorRuns == 3

\* ------------------------------------------------------------------------
\* Python values
\* ------------------------------------------------------------------------
\* Python's None for the module-level handle (handles are numbered from 1).
None == 0

\* None as a payload / optional text.
NonePayload == [kind |-> "None", val |-> ""]

Str(t) == [kind |-> "str", val |-> t]

Dict(t) == [kind |-> "dict", val |-> t]

\* ------------------------------------------------------------------------
\* str.upper()
\* ------------------------------------------------------------------------
LowerCase == <<"a","b","c","d","e","f","g","h","i","j","k","l","m",
               "n","o","p","q","r","s","t","u","v","w","x","y","z">>

UpperCase == <<"A","B","C","D","E","F","G","H","I","J","K","L","M",
               "N","O","P","Q","R","S","T","U","V","W","X","Y","Z">>

UpperChar(c) ==
  IF \E i \in 1..Len(LowerCase) : LowerCase[i] = c
  THEN UpperCase[CHOOSE i \in 1..Len(LowerCase) : LowerCase[i] = c]
  ELSE c

Upper(s) == [i \in 1..Len(s) |-> UpperChar(s[i])]

\* str.strip() on the model's whitespace character
RECURSIVE LStrip(_)
LStrip(s) == IF s # <<>> /\ Head(s) = " " THEN LStrip(Tail(s)) ELSE s

RECURSIVE RStrip(_)
RStrip(s) ==
  IF s # <<>> /\ s[Len(s)] = " " THEN RStrip(SubSeq(s, 1, Len(s) - 1)) ELSE s

Strip(s) == RStrip(LStrip(s))

\* ------------------------------------------------------------------------
\* trade_date.split('-')
\* ------------------------------------------------------------------------
RECURSIVE SplitAcc(_, _, _)
SplitAcc(s, sep, cur) ==
  IF s = <<>> THEN <<cur>>
  ELSE IF Head(s) = sep THEN <<cur>> \o SplitAcc(Tail(s), sep, <<>>)
  ELSE SplitAcc(Tail(s), sep, Append(cur, Head(s)))

Split(s, sep) == SplitAcc(s, sep, <<>>)

\* ------------------------------------------------------------------------
\* int(text): surrounding whitespace, an optional sign, decimal digits with
\* single underscores between digits.  A part of a split on '-' holds no
\* '-', so the only sign that can occur is '+'.
\* ------------------------------------------------------------------------
Digits == <<"0","1","2","3","4","5","6","7","8","9">>

IsDigit(c) == \E i \in 1..10 : Digits[i] = c

DigitVal(c) == (CHOOSE i \in 1..10 : Digits[i] = c) - 1

\* the digits of a literal body, or <<"?">> when the body is no literal
RECURSIVE LiteralDigits(_, _)
LiteralDigits(s, prevDigit) ==
  IF s = <<>> THEN (IF prevDigit THEN <<>> ELSE <<"?">>)
  ELSE IF IsDigit(Head(s))
       THEN LET rest == LiteralDigits(Tail(s), TRUE)
            IN IF rest = <<"?">> THEN rest ELSE <<Head(s)>> \o rest
  ELSE IF Head(s) = "_" /\ prevDigit /\ Tail(s) # <<>> /\ IsDigit(Head(Tail(s)))
       THEN LiteralDigits(Tail(s), FALSE)
  ELSE <<"?">>

RECURSIVE StripZeros(_)
StripZeros(d) ==
  IF Len(d) > 1 /\ Head(d) = "0" THEN StripZeros(Tail(d)) ELSE d

\* int(text): ok is FALSE where int() raises ValueError; digits are the
\* significant decimal digits of the (arbitrarily large) result.
IntParse(text) ==
  LET t    == Strip(text)
      body == IF t # <<>> /\ Head(t) = "+" THEN Tail(t) ELSE t
      d    == LiteralDigits(body, FALSE)
  IN IF d = <<"?">> THEN [ok |-> FALSE, digits |-> <<>>]
     ELSE [ok |-> TRUE, digits |-> StripZeros(d)]

\* ------------------------------------------------------------------------
\* datetime.date(year, month, day)
\* ------------------------------------------------------------------------
\* INT_MAX of the C int the constructor's arguments are converted to
CIntMaxDigits == <<"2","1","4","7","4","8","3","6","4","7">>

RECURSIVE DigitsLeq(_, _)
DigitsLeq(a, b) ==
  IF a = <<>> THEN TRUE
  ELSE IF DigitVal(Head(a)) < DigitVal(Head(b)) THEN TRUE
  ELSE IF DigitVal(Head(a)) > DigitVal(Head(b)) THEN FALSE
  ELSE DigitsLeq(Tail(a), Tail(b))

FitsCInt(d) ==
  \/ Len(d) < Len(CIntMaxDigits)
  \/ Len(d) = Len(CIntMaxDigits) /\ DigitsLeq(d, CIntMaxDigits)

RECURSIVE IntValue(_)
IntValue(d) ==
  IF d = <<>> THEN 0
  ELSE 10 * IntValue(SubSeq(d, 1, Len(d) - 1)) + DigitVal(d[Len(d)])

IsLeap(y) == y % 4 = 0 /\ (y % 100 # 0 \/ y % 400 = 0)

DaysInMonth(y, m) ==
  IF m = 2 THEN (IF IsLeap(y) THEN 29 ELSE 28)
  ELSE IF m \in {4, 6, 9, 11} THEN 30 ELSE 31

\* date(y, m, d) on the parsed integers: the three arguments are converted
\* to C ints first (OverflowError), the ranges are checked next (ValueError).
DateCtor(yd, md, dd) ==
  IF ~(FitsCInt(yd) /\ FitsCInt(md) /\ FitsCInt(dd)) THEN "OverflowError"
  ELSE LET y == IntValue(yd)
           m == IntValue(md)
           d == IntValue(dd)
       IN IF /\ y >= 1 /\ y <= 9999
             /\ m >= 1 /\ m <= 12
             /\ d >= 1 /\ d <= DaysInMonth(y, m)
          THEN "ok" ELSE "ValueError"

\* Lines 128-129: what the two statements of the validation block raise.
ValidateDate(trade_date) ==
  LET parts == Split(trade_date, "-")
  IN IF Len(parts) # 3 THEN "ValueError"
     ELSE LET y == IntParse(parts[1])
              m == IntParse(parts[2])
              d == IntParse(parts[3])
          IN IF ~(y.ok /\ m.ok /\ d.ok) THEN "ValueError"
             ELSE DateCtor(y.digits, m.digits, d.digits)

\* ------------------------------------------------------------------------
\* Inputs: request texts and collaborator behaviours
\* ------------------------------------------------------------------------
\* "nVda", " " and ""
Symbols == { <<"n","V","d","a">>, <<" ">>, <<>> }

Date_2024_05_10 == <<"2","0","2","4","-","0","5","-","1","0">>

Date_Feb30 == <<"2","0","2","4","-","0","2","-","3","0">>

Date_Month13 == <<"2","0","2","4","-","1","3","-","4","0">>

Date_Slashes == <<"2","0","2","4","/","0","5","/","1","0">>

Date_TwoParts == <<"2","0","2","4","-","0","5">>

Date_NotADate == <<"n","o","t","-","a","-","d","a","t","e">>

Date_HugeYear == <<"2","1","4","7","4","8","3","6","4","8","-","0","1","-","0","1">>

Date_Lenient == <<"+","2","0","2","4","-"," ","5","-","1","_","0">>

Date_Leap == <<"2","0","2","4","-","0","2","-","2","9">>

Date_Year10000 == <<"1","0","0","0","0","-","0","1","-","0","1">>

Dates == { Date_2024_05_10, Date_Feb30, Date_Month13, Date_Slashes,
           Date_TwoParts, Date_NotADate, Date_HugeYear, Date_Lenient,
           Date_Leap, Date_Year10000 }

\* ValidateDate tabulated over the date texts of the model
DateOutcome == [t \in Dates |-> ValidateDate(t)]

ParseDate(trade_date) == DateOutcome[trade_date]

\* what the engine's opaque payloads may look like
Payloads == { NonePayload, Dict("BUY"), Str("BUY") }

\* str(e) of the failures the collaborators raise
CtorErrors == { "OPENAI_API_KEY is not set" }

PropagateErrors == { "rate limit", "no data" }

\* TradingAgentsGraph(debug=False, config=config): returns or raises
CtorOutcomes == { [raises |-> FALSE, text |-> ""] }
                \cup { [raises |-> TRUE, text |-> t] : t \in CtorErrors }

\* graph.propagate(symbol, trade_date): raises, returns a pair, or returns
\* something that does not unpack into two values
PropagateOutcomes ==
  { [kind |-> "raises", text |-> t, state |-> NonePayload, decision |-> NonePayload]
      : t \in PropagateErrors }
  \cup { [kind |-> "pair", text |-> "", state |-> s, decision |-> d]
      : s \in Payloads, d \in Payloads }
  \cup { [kind |-> "nonpair", text |-> "", state |-> NonePayload, decision |-> NonePayload] }

\* the quote collaborator
QuoteBehaviours == { "import_unavailable", "set_config_raises",
                     "get_stock_data_raises", "mapping", "non_mapping" }

\* ------------------------------------------------------------------------
\* State
\* ------------------------------------------------------------------------
VARIABLES
  trading_graph_instance, \* the module-level handle (line 38), None or a handle
  ctorRuns,               \* how often TradingAgentsGraph(...) has been invoked
  constructed,            \* the handles the constructor has returned
  propagated,             \* the handles propagate has been invoked on
  inflight,               \* decision requests accepted, not yet run by the loop
  last                    \* the request handled last, and what became of it

vars == <<trading_graph_instance, ctorRuns, constructed, propagated, inflight, last>>

\* ------------------------------------------------------------------------
\* Response models (pydantic validation on construction)
\* ------------------------------------------------------------------------
NoBody == [success |-> FALSE, symbol |-> <<>>, date |-> <<>>,
           decision |-> NonePayload, full_state |-> NonePayload,
           error |-> NonePayload]

NoInfo == [symbol |-> <<>>, fields |-> {}]

\* what a handler call ends with: a returned body, or a raised exception
Return(body) == [type |-> "return", status |-> 200, text |-> "", body |-> body, info |-> NoInfo]

ReturnInfo(info) == [type |-> "return", status |-> 200, text |-> "", body |-> NoBody, info |-> info]

Raise(type, status, text) == [type |-> type, status |-> status, text |-> text, body |-> NoBody, info |-> NoInfo]

\* DecisionResponse(...): decision and full_state are Optional[Dict[str, Any]],
\* error is Optional[str]; anything else is a ValidationError.
DecisionResponse(success, symbol, date, decision, full_state, error) ==
  IF /\ decision.kind \in {"None", "dict"}
     /\ full_state.kind \in {"None", "dict"}
     /\ error.kind \in {"None", "str"}
  THEN Return([success |-> success, symbol |-> symbol, date |-> date,
               decision |-> decision, full_state |-> full_state, error |-> error])
  ELSE Raise("Exception", 0, "validation error for DecisionResponse")

\* StockInfo(**kwargs): symbol and timestamp are required (no default), the
\* other declared fields default to None, undeclared keywords are ignored.
StockInfoRequired == {"symbol", "timestamp"}

StockInfoFields == {"symbol", "name", "price", "change", "change_percent",
                    "market_cap", "volume", "pe_ratio", "dividend_yield",
                    "fifty_two_week_high", "fifty_two_week_low", "timestamp"}

StockInfo(symbol, keywords) ==
  IF StockInfoRequired \subseteq keywords
  THEN ReturnInfo([symbol |-> symbol, fields |-> keywords \cap StockInfoFields])
  ELSE Raise("Exception", 0, "validation error for StockInfo")

\* ------------------------------------------------------------------------
\* get_trading_graph (lines 41-46)
\* ------------------------------------------------------------------------
\* inst: the handle before the call; ctor: what the constructor does if it
\* is run; fresh: the handle it would return.  ran counts constructor runs.
get_trading_graph_noCheck(inst, ctor, fresh) ==
  IF ctor.raises
  THEN [raised |-> TRUE, text |-> ctor.text, inst |-> inst, ret |-> None,
        ran |-> 1, built |-> {}]
  ELSE [raised |-> FALSE, text |-> "", inst |-> fresh, ret |-> fresh,
        ran |-> 1, built |-> {fresh}]

get_trading_graph_noStore(inst, ctor, fresh) ==
  IF inst = None
  THEN IF ctor.raises
       THEN [raised |-> TRUE, text |-> ctor.text, inst |-> None, ret |-> None,
             ran |-> 1, built |-> {}]
       ELSE [raised |-> FALSE, text |-> "", inst |-> None, ret |-> fresh,
             ran |-> 1, built |-> {fresh}]
  ELSE [raised |-> FALSE, text |-> "", inst |-> inst, ret |-> inst,
        ran |-> 0, built |-> {}]

get_trading_graph_retry(inst, ctor, fresh) ==
  IF inst = None
  THEN IF ctor.raises
       THEN [raised |-> TRUE, text |-> ctor.text, inst |-> None, ret |-> None,
             ran |-> 2, built |-> {}]
       ELSE [raised |-> FALSE, text |-> "", inst |-> fresh, ret |-> fresh,
             ran |-> 1, built |-> {fresh}]
  ELSE [raised |-> FALSE, text |-> "", inst |-> inst, ret |-> inst,
        ran |-> 0, built |-> {}]

get_trading_graph(inst, ctor, fresh) ==
  IF inst = None
  THEN IF ctor.raises
       THEN [raised |-> TRUE, text |-> ctor.text, inst |-> None, ret |-> None,
             ran |-> 1, built |-> {}]
       ELSE [raised |-> FALSE, text |-> "", inst |-> fresh, ret |-> fresh,
             ran |-> 1, built |-> {fresh}]
  ELSE [raised |-> FALSE, text |-> "", inst |-> inst, ret |-> inst,
        ran |-> 0, built |-> {}]

\* ------------------------------------------------------------------------
\* get_trading_decision (lines 104-159)
\* ------------------------------------------------------------------------
InvalidDateDetail == "Invalid date format. Please use YYYY-MM-DD format."

FailureResponse_dropsError(request, text) ==
  DecisionResponse(FALSE, Upper(request.symbol), request.date,
                   NonePayload, NonePayload, NonePayload)

FailureResponse_rawSymbol(request, text) ==
  DecisionResponse(FALSE, request.symbol, request.date,
                   NonePayload, NonePayload, Str(text))

\* lines 152-159: the body built for a caught failure
FailureResponse(request, text) ==
  DecisionResponse(FALSE, Upper(request.symbol), request.date,
                   NonePayload, NonePayload, Str(text))

ExceptHandler_reraise(exc, request) == exc

\* lines 150-159: the two except clauses of the handler
ExceptHandler(exc, request) ==
  IF exc.type = "HTTPException" THEN exc
  ELSE FailureResponse(request, exc.text)

\* lines 139-148: run the analysis on the acquired handle, build the response
RunAnalysis(symbol, trade_date, prop) ==
  IF prop.kind = "raises" THEN Raise("Exception", 0, prop.text)
  ELSE IF prop.kind = "nonpair" THEN Raise("Exception", 0, "cannot unpack")
  ELSE DecisionResponse(TRUE, symbol, trade_date, prop.decision, prop.state,
                        NonePayload)

\* The whole handler.  The result carries the response (out), the handle
\* afterwards (inst) and what the call did to the engine.
get_trading_decision(request, inst, ctor, prop, fresh) ==
  LET symbol     == Upper(request.symbol)
      trade_date == request.date
      parsed     == ParseDate(trade_date)
      idle(out)  == [out |-> out, inst |-> inst, ran |-> 0, built |-> {},
                     ctorRaised |-> FALSE, propagateOn |-> None,
                     propagateSymbol |-> <<>>, propagateDate |-> <<>>,
                     propagateRaised |-> FALSE]
  IN IF parsed = "ValueError"
     THEN idle(ExceptHandler(Raise("HTTPException", 400, InvalidDateDetail), request))
     ELSE IF parsed = "OverflowError"
     THEN idle(ExceptHandler(
                 Raise("Exception", 0, "signed integer is greater than maximum"),
                 request))
     ELSE LET g == get_trading_graph(inst, ctor, fresh)
          IN IF g.raised
             THEN [idle(ExceptHandler(Raise("Exception", 0, g.text), request))
                     EXCEPT !.inst = g.inst, !.ran = g.ran, !.built = g.built,
                            !.ctorRaised = TRUE]
             ELSE LET r == RunAnalysis(symbol, trade_date, prop)
                  IN [out |-> IF r.type = "return" THEN r
                              ELSE ExceptHandler(r, request),
                      inst |-> g.inst, ran |-> g.ran, built |-> g.built,
                      ctorRaised |-> FALSE, propagateOn |-> g.ret,
                      propagateSymbol |-> symbol, propagateDate |-> trade_date,
                      propagateRaised |-> (prop.kind = "raises")]

\* ------------------------------------------------------------------------
\* get_stock_info (lines 162-218)
\* ------------------------------------------------------------------------
\* lines 182-208: the inner try block
FetchStockInfo(symbol, quote) ==
  IF quote = "import_unavailable" THEN Raise("Exception", 0, "No module named tradingagents")
  ELSE IF quote = "set_config_raises" THEN Raise("Exception", 0, "bad config")
  ELSE IF quote = "get_stock_data_raises" THEN Raise("Exception", 0, "symbol not found")
  ELSE IF quote = "mapping"
       THEN StockInfo(symbol, {"symbol"})
       ELSE StockInfo(symbol, {"symbol"})

get_stock_info(symbol_in, quote) ==
  LET symbol == Upper(symbol_in)
      inner  == FetchStockInfo(symbol, quote)
      \* lines 210-215: the inner except clause builds the minimal info
      caught == IF inner.type = "return" THEN inner
                ELSE StockInfo(symbol, {"symbol", "error"})
  IN \* lines 217-218: the outer except clause
     IF caught.type = "return" THEN caught
     ELSE Raise("HTTPException", 500, caught.text)

\* ------------------------------------------------------------------------
\* The transport: what the framework sends for a handler's outcome
\* ------------------------------------------------------------------------
TransportStatus(out) ==
  IF out.type = "return" THEN 200
  ELSE IF out.type = "HTTPException" THEN out.status
  ELSE 500

\* ------------------------------------------------------------------------
\* Requests that are well formed in the sense of the specification: three
\* dash-separated integers that form a calendar date of the years 1..9999.
\* ------------------------------------------------------------------------
IsCalendarDate(t) ==
  LET parts == Split(t, "-")
  IN /\ Len(parts) = 3
     /\ \A i \in 1..3 : IntParse(parts[i]).ok
     /\ \A i \in 1..3 : Len(IntParse(parts[i]).digits) <= 4
     /\ LET y == IntValue(IntParse(parts[1]).digits)
            m == IntValue(IntParse(parts[2]).digits)
            d == IntValue(IntParse(parts[3]).digits)
        IN /\ y \in 1..9999
           /\ m \in 1..12
           /\ d \in 1..DaysInMonth(y, m)

WellFormedDates == {t \in Dates : IsCalendarDate(t)}

WellFormedDate(t) == t \in WellFormedDates

EmptyAfterTrim(s) == Strip(s) = <<>>

WellFormedCount(q) == Cardinality({i \in 1..Len(q) : WellFormedDate(q[i].date)})

\* a request is marked (batch) once it has waited, with a well-formed date,
\* beside another such request while no handle existed
MarkBatch(q, inst) ==
  IF inst = None /\ WellFormedCount(q) >= 2
  THEN [i \in 1..Len(q) |->
          IF WellFormedDate(q[i].date) THEN [q[i] EXCEPT !.batch = TRUE] ELSE q[i]]
  ELSE q

RemoveAt(q, i) == SubSeq(q, 1, i - 1) \o SubSeq(q, i + 1, Len(q))

\* ------------------------------------------------------------------------
\* Initial state and actions
\* ------------------------------------------------------------------------
NoPropagate == [kind |-> "nonpair", text |-> "", state |-> NonePayload,
                decision |-> NonePayload]

NoCtor == [raises |-> FALSE, text |-> ""]

NoLast == [op |-> "none", symbol |-> <<>>, date |-> <<>>, batch |-> FALSE,
           quote |-> "", status |-> 0, detail |-> "", body |-> NoBody,
           info |-> NoInfo, instBefore |-> None, ctorAttempts |-> 0,
           ctorRaised |-> FALSE, ctorText |-> "", propagateOn |-> None,
           propagateSymbol |-> <<>>, propagateDate |-> <<>>,
           propagateRaised |-> FALSE, propagate |-> NoPropagate]

Init ==
  /\ trading_graph_instance = None
  /\ ctorRuns = 0
  /\ constructed = {}
  /\ propagated = {}
  /\ inflight = <<>>
  /\ last = NoLast

\* The collaborator outcomes a request can meet: the constructor is run only
\* for an accepted date while no handle exists, propagate only on a handle.
CtorChoices(request, inst) ==
  IF ParseDate(request.date) = "ok" /\ inst = None THEN CtorOutcomes ELSE {NoCtor}

PropagateChoices(request, ctor) ==
  IF ParseDate(request.date) = "ok" /\ ~ctor.raises THEN PropagateOutcomes
  ELSE {NoPropagate}

\* the event loop runs get_trading_decision for one request; rest is what
\* still waits afterwards
Handle(request, ctor, prop, rest) ==
  \E res \in {get_trading_decision(request, trading_graph_instance, ctor, prop,
                                   ctorRuns + 1)} :
    /\ ctorRuns + res.ran <= MaxCtorRuns
    /\ trading_graph_instance' = res.inst
    /\ ctorRuns' = ctorRuns + res.ran
    /\ constructed' = constructed \cup res.built
    /\ propagated' = IF res.propagateOn = None THEN propagated
                     ELSE propagated \cup {res.propagateOn}
    /\ inflight' = rest
    /\ last' = [NoLast EXCEPT
                  !.op = "decision", !.symbol = request.symbol,
                  !.date = request.date, !.batch = request.batch,
                  !.status = TransportStatus(res.out),
                  !.detail = IF res.out.type = "return" THEN "" ELSE res.out.text,
                  !.body = res.out.body,
                  !.instBefore = trading_graph_instance,
                  !.ctorAttempts = res.ran, !.ctorRaised = res.ctorRaised,
                  !.ctorText = IF res.ctorRaised THEN ctor.text ELSE "",
                  !.propagateOn = res.propagateOn,
                  !.propagateSymbol = res.propagateSymbol,
                  !.propagateDate = res.propagateDate,
                  !.propagateRaised = res.propagateRaised,
                  !.propagate = prop]

\* the requests of the concurrent specification
ConcurrentSymbols == { <<"n","V","d","a">> }

ConcurrentDates == { Date_2024_05_10, Date_Feb30, Date_HugeYear }

\* a decision request arrives and waits for the event loop
Receive ==
  \E s \in ConcurrentSymbols, d \in ConcurrentDates :
    /\ Len(inflight) < MaxInflight
    /\ inflight' = MarkBatch(Append(inflight, [symbol |-> s, date |-> d, batch |-> FALSE]),
                             trading_graph_instance)
    /\ UNCHANGED <<trading_graph_instance, ctorRuns, constructed, propagated, last>>

\* the event loop runs the handler of one waiting request to completion
HandleDecision ==
  \E i \in 1..Len(inflight) :
    \E ctor \in CtorChoices(inflight[i], trading_graph_instance) :
      \E prop \in PropagateChoices(inflight[i], ctor) :
        Handle(inflight[i], ctor, prop, RemoveAt(inflight, i))

\* POST /api/decision with nothing else waiting: arrival and handler in one
Decide ==
  \E s \in Symbols, d \in Dates :
    \E request \in {[symbol |-> s, date |-> d, batch |-> FALSE]} :
      \E ctor \in CtorChoices(request, trading_graph_instance) :
        \E prop \in PropagateChoices(request, ctor) :
          /\ inflight = <<>>
          /\ Handle(request, ctor, prop, <<>>)

\* GET /api/stock
GetStockInfo ==
  \E s \in Symbols, quote \in QuoteBehaviours :
    \E out \in {get_stock_info(s, quote)} :
      /\ last' = [NoLast EXCEPT
                    !.op = "stock", !.symbol = s, !.quote = quote,
                    !.status = TransportStatus(out),
                    !.detail = IF out.type = "return" THEN "" ELSE out.text,
                    !.info = out.info,
                    !.instBefore = trading_graph_instance]
      /\ UNCHANGED <<trading_graph_instance, ctorRuns, constructed, propagated, inflight>>

\* GET /health (lines 89-101)
HealthCheck ==
  /\ last' = [NoLast EXCEPT !.op = "health", !.status = 200, !.detail = "healthy",
                            !.instBefore = trading_graph_instance]
  /\ UNCHANGED <<trading_graph_instance, ctorRuns, constructed, propagated, inflight>>

\* GET / (lines 221-235)
Root ==
  /\ last' = [NoLast EXCEPT !.op = "root", !.status = 200, !.detail = "TradingAgents API",
                            !.instBefore = trading_graph_instance]
  /\ UNCHANGED <<trading_graph_instance, ctorRuns, constructed, propagated, inflight>>

\* Concurrent requests: decision requests wait for the event loop while
\* other requests are served.
Next == Receive \/ HandleDecision \/ GetStockInfo \/ HealthCheck \/ Root

Spec == Init /\ [][Next]_vars

\* One request at a time, over all the request texts of the model.
NextSeq == Decide \/ GetStockInfo \/ HealthCheck \/ Root

SpecSeq == Init /\ [][NextSeq]_vars

\* ------------------------------------------------------------------------
\* Properties
\* ------------------------------------------------------------------------
DecisionHandled == last.op = "decision"

\* C1: a decision request whose date is not three dash-separated integers
\* forming a calendar date ends with status 400 and the fixed detail; the
\* handle is not constructed and propagate is not invoked.
C1_MalformedDateRejected ==
  (DecisionHandled /\ ~WellFormedDate(last.date)) =>
    /\ last.status = 400
    /\ last.detail = InvalidDateDetail
    /\ trading_graph_instance = last.instBefore
    /\ last.ctorAttempts = 0
    /\ last.propagateOn = None

\* C2: whatever the quote collaborator does, get_stock_info returns a
\* StockInfo (status 200) whose symbol is the uppercase of the requested
\* symbol and which carries a timestamp.
C2_StockInfoAlwaysReturned ==
  last.op = "stock" =>
    /\ last.status = 200
    /\ last.info.symbol = Upper(last.symbol)
    /\ "timestamp" \in last.info.fields

\* C3: with a well-formed date, a failure raised by propagate is not
\* re-raised: status 200, success false, decision absent, error equal to
\* the failure's text.
C3_PropagateFailureSwallowed ==
  (DecisionHandled /\ WellFormedDate(last.date) /\ last.propagateRaised) =>
    /\ last.status = 200
    /\ last.body.success = FALSE
    /\ last.body.decision = NonePayload
    /\ last.body.error = Str(last.propagate.text)

C3_Witness ==
  /\ DecisionHandled /\ WellFormedDate(last.date) /\ last.propagateRaised
  /\ last.propagate.text = "no data"
  /\ last.body.error = Str("no data")

\* C4: with a well-formed date, whenever propagate returns a (state,
\* decision) pair, the response has success true, the returned decision and
\* state and no error, whatever the shape of the two payloads.
C4_SuccessOnAnyPayload ==
  (DecisionHandled /\ WellFormedDate(last.date) /\ last.propagateOn # None
     /\ last.propagate.kind = "pair") =>
    /\ last.status = 200
    /\ last.body.success = TRUE
    /\ last.body.decision = last.propagate.decision
    /\ last.body.full_state = last.propagate.state
    /\ last.body.error = NonePayload

\* C5: the engine is constructed successfully at most once; once the handle
\* exists no step runs the constructor, resets or replaces the handle, and
\* every later request propagates on that handle.
C5_Step ==
  /\ Cardinality(constructed') <= 1
  /\ trading_graph_instance # None =>
       /\ trading_graph_instance' = trading_graph_instance
       /\ ctorRuns' = ctorRuns
       /\ constructed' = constructed
       /\ last'.propagateOn # None => last'.propagateOn = trading_graph_instance

C5_HandleConstructedOnce == [][C5_Step]_vars

C5_Witness ==
  /\ DecisionHandled
  /\ last.instBefore # None
  /\ last.propagateOn = last.instBefore
  /\ last.propagateRaised
  /\ trading_graph_instance = last.instBefore
  /\ ctorRuns >= 2

\* C6 as stated: every decision request that waited, with a well-formed
\* date, beside another one while no handle existed invokes propagate, all
\* on the one handle that was constructed.
C6_ExactlyOneConstruction ==
  (DecisionHandled /\ last.batch) =>
    /\ last.propagateOn # None
    /\ propagated = {last.propagateOn}
    /\ constructed = {last.propagateOn}

\* C6 as amended: among such requests at most one construction succeeds;
\* a request whose own get_trading_graph call does not raise invokes
\* propagate on that single handle, and one whose construction attempt
\* raises invokes propagate on nothing.
C6_SingleHandleUnderConcurrency ==
  (DecisionHandled /\ last.batch) =>
    /\ Cardinality(constructed) <= 1
    /\ ~last.ctorRaised =>
         /\ last.propagateOn # None
         /\ propagated = {last.propagateOn}
         /\ constructed = {last.propagateOn}
         /\ trading_graph_instance = last.propagateOn
    /\ last.ctorRaised => last.propagateOn = None

C6_Witness ==
  /\ DecisionHandled /\ last.batch
  /\ last.instBefore # None
  /\ last.ctorAttempts = 0
  /\ last.propagateOn = last.instBefore

\* C7 as stated: with a well-formed date, a raising engine constructor ends
\* the request with a server-error transport status.
C7_ConstructionFailureIsServerError ==
  (DecisionHandled /\ WellFormedDate(last.date) /\ last.ctorRaised) =>
    last.status >= 500

\* C7 as amended: with a well-formed date, a raising engine constructor ends
\* the request with a status 200 DecisionResponse: success false, decision
\* absent, error equal to the constructor failure's text.
C7_ConstructionFailureSwallowed ==
  (DecisionHandled /\ WellFormedDate(last.date) /\ last.ctorRaised) =>
    /\ last.status = 200
    /\ last.body.success = FALSE
    /\ last.body.decision = NonePayload
    /\ last.body.error = Str(last.ctorText)

C7_Witness ==
  /\ DecisionHandled /\ WellFormedDate(last.date) /\ last.ctorRaised
  /\ last.ctorText \in CtorErrors
  /\ last.status = 200

\* C8: a decision request whose symbol is empty after trimming ends with a
\* client error before the handle is acquired and before propagate runs.
C8_EmptySymbolRejected ==
  (DecisionHandled /\ EmptyAfterTrim(last.symbol)) =>
    /\ last.status \in 400..499
    /\ trading_graph_instance = last.instBefore
    /\ last.ctorAttempts = 0
    /\ last.propagateOn = None

\* C9: for every symbol S and well-formed date D the request ends with a
\* DecisionResponse whose symbol is uppercase(S) and whose date is D, on the
\* success path and on every failure path.
C9_ResponseEchoesRequest ==
  (DecisionHandled /\ WellFormedDate(last.date)) =>
    /\ last.status = 200
    /\ last.body.symbol = Upper(last.symbol)
    /\ last.body.date = last.date

C9_Witness ==
  /\ DecisionHandled /\ WellFormedDate(last.date)
  /\ last.symbol # Upper(last.symbol)
  /\ last.body.success = FALSE
  /\ last.propagate.kind = "pair"
  /\ last.body.symbol = Upper(last.symbol)

\* C10: a request with a well-formed date that finds no handle runs the
\* constructor exactly once; if it raises, the handle stays unset and
\* nothing is propagated, so the next such request runs it again; if it
\* returns, that handle is stored.
C10_Step ==
  /\ (last.op = "decision" /\ last.ctorRaised) => trading_graph_instance = None
  /\ (Len(inflight') < Len(inflight) /\ WellFormedDate(last'.date)
        /\ trading_graph_instance = None) =>
       /\ ctorRuns' = ctorRuns + 1
       /\ last'.ctorAttempts = 1
       /\ last'.ctorRaised =>
            /\ trading_graph_instance' = None
            /\ constructed' = constructed
            /\ last'.propagateOn = None
       /\ ~last'.ctorRaised =>
            /\ trading_graph_instance' = ctorRuns'
            /\ constructed' = {ctorRuns'}

C10_FailedConstructionRetried == [][C10_Step]_vars

C10_Witness ==
  /\ DecisionHandled
  /\ last.instBefore = None
  /\ last.ctorAttempts = 1
  /\ ~last.ctorRaised
  /\ ctorRuns >= 2
  /\ trading_graph_instance = ctorRuns

====
